---- MODULE Spec2Model ----
(***************************************************************************)
(* A model of the org-helper bot: the Discord and Slack message listeners, *)
(* the command processing pipeline they hand messages to, and the clean    *)
(* command's fetch/delete loop.                                            *)
(*                                                                         *)
(* Spec           the listeners and the pipeline, one inbound message at a *)
(*                time, with reply chunk sends that outlive the handler    *)
(* SpecClean      one execution of CleanCommand.executeForDiscord          *)
(* SpecCleanFair  the same, every awaited call settling                    *)
(* SpecCleanScan  a clean invocation from the scan of its arguments on     *)
(* SpecReply      one reply: the text split into chunks and their sends    *)
(* SpecCreateRole one execution of CreateRoleCommand.executeForSlack       *)
(* SpecDelete     two concurrent executions of                             *)
(*                DeleteImageTemplateCommand.executeForDiscord             *)
(***************************************************************************)
EXTENDS Integers, Sequences, FiniteSets, TLC

\* ------------------------------------------------------------------ bounds
\* most chunks one reply text is split into
MaxChunks == 2
\* a reply text has 1..MaxLines lines
MaxLines == 3
\* a clean invocation has 0..MaxPositional tokens without a name
MaxPositional == 2
\* most chunk sends outstanding at one time
MaxInFlight == 2
\* image template ids are 1..MaxTemplateId
MaxTemplateId == 1

\* guilds the client is in when it becomes ready
MaxGuilds == 2
\* the invoking channel holds 0..MaxMessages messages
MaxMessages == 52
\* a second channel holds 0..MaxOtherMessages messages
MaxOtherMessages == 2
\* createdTimestamp of the invoking message
InvokeTimestamp == 100

VARIABLES
  discordClientReady, \* context.discordClientReady
  readyPc,            \* position of the Discord 'ready' handler
  guildUpdates,       \* guild -> how its updateGuild call of the ready handler stands
  alive,              \* the node process is running
  pc,                 \* position of the per-message handler
  msg,                \* the inbound message being handled
  cmd,                \* the Command instance built for it
  processed,          \* the handler's local `processed`
  hist,               \* what has happened to the current message so far
  templates,          \* imageTemplateTable: ids of the organization's rows
  permRows,           \* permissionsTable rows
  sendsInFlight,      \* chunk sends started and not yet settled
  escaped,            \* a rejected promise nobody handles has occurred
  cpc,                \* position inside CleanCommand.executeForDiscord
  cleanArgs,          \* the bound arguments and the invoking message
  chan,               \* channel id -> the messages it holds (by timestamp)
  chan0,              \* the channels when the command started
  ci,                 \* the channel loop's i (1-based)
  needRefetch,        \* the local needRefetch
  messagesToDelete,   \* the local messagesToDelete
  deletedCount,       \* the local deletedCount
  checkedCount,       \* the local checkedCount
  deleted,            \* <<channel, message>> pairs bulkDelete has removed
  result,             \* the returned text (<<>> is the empty string)
  calls,              \* the fetch and bulkDelete calls made, in order
  scan,               \* the tokens of the clean invocation and how each argument got its value
  rpc,                \* position inside replyToMessage
  rsource,            \* the source replying
  rtext,              \* the reply text
  chunks,             \* what splitText returned
  sends,              \* the send calls issued, in the order of the chunks
  crpc,               \* position inside CreateRoleCommand.executeForSlack
  crArgs,             \* its roleNames and parentRoleName
  ck,                 \* the index of the role name the loop is at (1-based)
  slackCalls,         \* the Slack client calls made, in order
  conversations,      \* the conversations the workspace has, in creation order
  rolesTable,         \* rolesTable: the ids of its rows
  crResult,           \* what executeForSlack returned
  dpc,                \* execution -> position inside DeleteImageTemplateCommand.executeForDiscord
  dArgs,              \* execution -> its orgId and ids
  dRead,              \* execution -> the local templateIds
  dTable,             \* imageTemplateTable: <<orgId, id>> of every row
  dTable0,            \* the table when the executions started
  dResult,            \* execution -> the returned text
  dCalls              \* the deleteDiscordRows calls made, in order

listenerVars ==
  <<discordClientReady, readyPc, guildUpdates, alive, pc, msg, cmd, processed, hist,
    templates, permRows, sendsInFlight, escaped>>

cleanVars ==
  <<cpc, cleanArgs, chan, chan0, ci, needRefetch, messagesToDelete,
    deletedCount, checkedCount, deleted, result, calls, scan>>

replyVars == <<rpc, rsource, rtext, chunks, sends>>

createVars ==
  <<crpc, crArgs, ck, slackCalls, conversations, rolesTable, crResult>>

deleteVars == <<dpc, dArgs, dRead, dTable, dTable0, dResult, dCalls>>

commandVars == <<createVars, deleteVars>>

vars == <<listenerVars, cleanVars, replyVars, commandVars>>

Null == "null"

\* ------------------------------------------------------- command definitions

\* mutant: channelIds is not marked skipInSequentialRead
CleanCommandArgDefsAllSequential ==
  << [name |-> "time",       nonNull |-> FALSE, skipInSequentialRead |-> FALSE],
     [name |-> "channelIds", nonNull |-> FALSE, skipInSequentialRead |-> FALSE],
     [name |-> "silent",     nonNull |-> FALSE, skipInSequentialRead |-> FALSE] >>

CleanCommandArgDefs ==
  << [name |-> "time",       nonNull |-> FALSE, skipInSequentialRead |-> FALSE],
     [name |-> "channelIds", nonNull |-> FALSE, skipInSequentialRead |-> TRUE],
     [name |-> "silent",     nonNull |-> FALSE, skipInSequentialRead |-> FALSE] >>

\* mutant: ids declared nonNull
DeleteImageTemplateCommandArgDefsNonNull ==
  << [name |-> "ids", nonNull |-> TRUE, skipInSequentialRead |-> FALSE] >>

DeleteImageTemplateCommandArgDefs ==
  << [name |-> "ids", nonNull |-> FALSE, skipInSequentialRead |-> FALSE] >>

\* mutant: roleNames declared without nonNull
CreateRoleCommandArgDefsNullable ==
  << [name |-> "roleNames",      nonNull |-> FALSE, skipInSequentialRead |-> FALSE],
     [name |-> "parentRoleName", nonNull |-> FALSE, skipInSequentialRead |-> FALSE] >>

CreateRoleCommandArgDefs ==
  << [name |-> "roleNames",      nonNull |-> TRUE,  skipInSequentialRead |-> FALSE],
     [name |-> "parentRoleName", nonNull |-> FALSE, skipInSequentialRead |-> FALSE] >>

\* A registered command that declares a native and a bot-owned permission and
\* one nonNull argument (none of the three commands above declares both lists).
GuardedCommandArgDefs ==
  << [name |-> "value", nonNull |-> TRUE, skipInSequentialRead |-> FALSE] >>

CommandNames == {"clean", "deleteimagetemplate", "createrole", "guarded"}

getDefinedArgs(c) ==
  CASE c = "clean"               -> CleanCommandArgDefs
    [] c = "deleteimagetemplate" -> DeleteImageTemplateCommandArgDefs
    [] c = "createrole"          -> CreateRoleCommandArgDefs
    [] OTHER                     -> GuardedCommandArgDefs

ArgNames(c) == { getDefinedArgs(c)[k].name : k \in 1..Len(getDefinedArgs(c)) }

CleanRequiredDiscordPermissions == {"MANAGE_MESSAGES"}

\* mutant: the command declares no bot-owned permission
NoRequiredBotPermissions == {}

DeleteImageTemplateRequiredBotPermissions == {"imagetemplate"}

CreateRoleRequiredBotPermissions == {}

GuardedRequiredNativePermissions == {"ADMINISTRATOR"}

GuardedRequiredBotPermissions == {"imagetemplate"}

getRequiredDiscordPermissions(c) ==
  CASE c = "clean"   -> CleanRequiredDiscordPermissions
    [] c = "guarded" -> GuardedRequiredNativePermissions
    [] OTHER         -> {}

getRequiredSlackPermissions(c) ==
  CASE c = "guarded" -> GuardedRequiredNativePermissions
    [] OTHER         -> {}

getRequiredBotPermissions(c) ==
  CASE c = "deleteimagetemplate" -> DeleteImageTemplateRequiredBotPermissions
    [] c = "createrole"          -> CreateRoleRequiredBotPermissions
    [] c = "guarded"             -> GuardedRequiredBotPermissions
    [] OTHER                     -> {}

\* the commands each source's command manager registers
RegisteredCommands(source) ==
  IF source = "discord" THEN {"clean", "deleteimagetemplate", "guarded"}
                        ELSE {"createrole", "guarded"}

\* mutant: the source asks for no native permission
getCommandPermissionsNone(source, c) == {}

\* DiscordSource.getCommandPermissions / SlackSource.getCommandPermissions
getCommandPermissions(source, c) ==
  IF source = "discord" THEN getRequiredDiscordPermissions(c)
                        ELSE getRequiredSlackPermissions(c)

\* CleanCommand.getDefaultDiscordArgValue: only channelIds has a default
getDefaultDiscordArgValue(c, arg) ==
  IF c = "clean" /\ arg = "channelIds" THEN "currentChannel" ELSE Null

getDefaultArgValue(source, c, arg) ==
  IF source = "discord" THEN getDefaultDiscordArgValue(c, arg) ELSE Null

\* ------------------------------------------------------------- permissions

NativePermissions == {"MANAGE_MESSAGES", "ADMINISTRATOR"}

Actor == "u1"
ActorOrg == "org1"
RoleIds == {"r1"}

PermissionRowUniverse ==
  { [source |-> "discord", orgId |-> "org1", subjectType |-> "user",
     subjectId |-> "u1", permissionType |-> "imagetemplate"],
    [source |-> "discord", orgId |-> "org1", subjectType |-> "role",
     subjectId |-> "r1", permissionType |-> "imagetemplate"],
    [source |-> "discord", orgId |-> "org2", subjectType |-> "user",
     subjectId |-> "u1", permissionType |-> "imagetemplate"],
    [source |-> "slack",   orgId |-> "org1", subjectType |-> "user",
     subjectId |-> "u1", permissionType |-> "imagetemplate"] }

\* slack-permissions.js: the Slack delegate grants every native permission
SlackHasPermissionInChannel(grants, permission) == TRUE

\* the Discord delegate: the actor's platform grants in the acting channel
DiscordHasPermissionInChannel(grants, permission) == permission \in grants

hasPermissionInChannel(source, grants, permission) ==
  IF source = "slack" THEN SlackHasPermissionInChannel(grants, permission)
                      ELSE DiscordHasPermissionInChannel(grants, permission)

\* slack-permissions.js: the Slack delegate reports no roles
getMemberRoleIds(source, roles) == IF source = "slack" THEN {} ELSE roles

NativeCheck(source, c, grants) ==
  \A p \in getCommandPermissions(source, c) : hasPermissionInChannel(source, grants, p)

RowMatches(row, source, orgId, roleIds, permissionType) ==
  /\ row.source = source
  /\ row.orgId = orgId
  /\ row.permissionType = permissionType
  /\ \/ row.subjectType = "user" /\ row.subjectId = Actor
     \/ row.subjectType = "role" /\ row.subjectId \in roleIds

BotCheck(source, c, rows, roles) ==
  \A f \in getRequiredBotPermissions(c) :
    \E row \in rows : RowMatches(row, source, ActorOrg, getMemberRoleIds(source, roles), f)

\* both universes must pass
isAuthorized(nativeOk, botOk) == nativeOk /\ botOk

\* ---------------------------------------------------------------- messages

NoMsg ==
  [source |-> Null, hasGuild |-> FALSE, hasChannel |-> FALSE, byBot |-> FALSE,
   command |-> Null]

\* mutant: the organization id is read without the guild test
DiscordMessageOrgIdUnguarded(m) == ActorOrg

\* DiscordMessage.orgId: the guild's id, null without a guild
DiscordMessageOrgId(m) == IF m.hasGuild THEN ActorOrg ELSE Null

\* DiscordMessage.channelId: the channel's id, null without a channel
DiscordMessageChannelId(m) == IF m.hasChannel THEN "c1" ELSE Null

\* SlackMessage.orgId: the payload's team, passed through
SlackMessageOrgId(m) == IF m.hasGuild THEN ActorOrg ELSE Null

\* SlackMessage.channelId: the payload's channel, passed through
SlackMessageChannelId(m) == IF m.hasChannel THEN "c1" ELSE Null

orgId(m) ==
  IF m.source = "discord" THEN DiscordMessageOrgId(m) ELSE SlackMessageOrgId(m)

channelId(m) ==
  IF m.source = "discord" THEN DiscordMessageChannelId(m) ELSE SlackMessageChannelId(m)

NoCmd ==
  [name |-> Null, supplied |-> {}, invalid |-> FALSE, ids |-> {},
   stage |-> "none", grants |-> {}, roles |-> {},
   nativeOk |-> FALSE, botOk |-> FALSE]

NoHist ==
  [dropped |-> FALSE, normalized |-> FALSE, reconciled |-> <<>>,
   processCalled |-> FALSE, processResult |-> "none", executed |-> FALSE,
   moderated |-> FALSE, privateHandled |-> FALSE, deleteCalled |-> FALSE,
   threwAt |-> "none", logged |-> "none",
   rejected |-> "none", reply |-> <<>>, templatesBefore |-> {}, rowsBefore |-> {}]

\* the handler's catch block: log.e and return
Caught(h, at) == [h EXCEPT !.threwAt = at, !.logged = "e"]


\* ---------------------------------------------------- Discord 'ready' handler

\* the guilds in client.guilds.cache when the client becomes ready
Guilds == 1..MaxGuilds

\* the handler has run up to `await Promise.all(updateResults)`: one
\* updateGuild call per guild is in flight
InitListener ==
  /\ discordClientReady = FALSE
  /\ readyPc = "start"
  /\ guildUpdates = [g \in Guilds |-> "pending"]
  /\ alive = TRUE
  /\ pc = "idle"
  /\ msg = NoMsg
  /\ cmd = NoCmd
  /\ processed = FALSE
  /\ hist = NoHist
  /\ templates = 1..MaxTemplateId
  /\ permRows \in SUBSET PermissionRowUniverse
  /\ sendsInFlight = 0
  /\ escaped = FALSE

\* one of the per-guild updateGuild calls settles; Promise.all resolves when
\* the last one has succeeded and rejects with the first that fails
ReadyUpdateGuild ==
  /\ alive /\ readyPc = "start"
  /\ \E g \in Guilds :
       /\ guildUpdates[g] = "pending"
       /\ \/ /\ guildUpdates' = [guildUpdates EXCEPT ![g] = "ok"]
             /\ readyPc' = IF \A h \in Guilds \ {g} : guildUpdates[h] = "ok"
                             THEN "updateGuilds" ELSE "start"
          \/ /\ guildUpdates' = [guildUpdates EXCEPT ![g] = "failed"]
             /\ readyPc' = "failed"
  /\ UNCHANGED <<discordClientReady, alive, pc, msg, cmd, processed, hist,
                 templates, permRows, sendsInFlight, escaped>>
  /\ UNCHANGED <<cleanVars, replyVars, commandVars>>

ReadyAfterUpdateGuildsEitherWay(succeeded) == TRUE

\* `this.c.discordClientReady = true` comes after `await updateGuilds(...)`
\* inside the try: it runs only when the call succeeded
ReadyAfterUpdateGuilds(succeeded) == succeeded

\* updateGuilds settles, then the flag is set
ReadyUpdateGuilds ==
  /\ alive /\ readyPc = "updateGuilds"
  /\ \/ readyPc' = "syncTasks" /\ discordClientReady' = ReadyAfterUpdateGuilds(TRUE)
     \/ readyPc' = "failed" /\ discordClientReady' = ReadyAfterUpdateGuilds(FALSE)
  /\ UNCHANGED <<guildUpdates, alive, pc, msg, cmd, processed, hist,
                 templates, permRows, sendsInFlight, escaped>>
  /\ UNCHANGED <<cleanVars, replyVars, commandVars>>

\* await scheduler.syncTasks: a failure here is only logged, the flag stays set
ReadySyncTasks ==
  /\ alive /\ readyPc = "syncTasks"
  /\ readyPc' = "done"
  /\ UNCHANGED <<discordClientReady, guildUpdates, alive, pc, msg, cmd, processed, hist,
                 templates, permRows, sendsInFlight, escaped>>
  /\ UNCHANGED <<cleanVars, replyVars, commandVars>>

\* -------------------------------------------------- Discord 'message' handler

\* mutant: every message is taken for a guild message
IsGuildMessageAlways(m) == TRUE

\* the guild test that routes a message
IsGuildMessage(m) == m.hasGuild

DropsMessageNever(ready) == FALSE

\* `if (!this.c.discordClientReady) { log.w(...); return; }`
DropsMessage(ready) == ~ready

HandlerStepAfterSkippingSync(step, m) ==
  CASE step = "normalize"    -> "updateGuilds"
    [] step = "updateGuilds" -> IF IsGuildMessage(m) THEN "updateGuild" ELSE "private"
    [] step = "syncTasks"    -> IF IsGuildMessage(m) THEN "updateGuild" ELSE "private"
    [] step = "updateGuild"  -> IF ~m.byBot THEN "process" ELSE "idle"

\* the try block of the handler: what follows each step when it succeeded
HandlerStepAfter(step, m) ==
  CASE step = "normalize"    -> "updateGuilds"
    [] step = "updateGuilds" -> "syncTasks"
    [] step = "syncTasks"    -> IF IsGuildMessage(m) THEN "updateGuild" ELSE "private"
    [] step = "updateGuild"  -> IF ~m.byBot THEN "process" ELSE "idle"

\* a message arrives; before the client is ready it is dropped with a warning.
\* A guild message always carries its channel; a private one carries the
\* direct-message channel (a payload without any channel is allowed for too).
DiscordReceive ==
  /\ alive /\ pc = "idle"
  /\ \E g \in BOOLEAN, ch \in BOOLEAN, b \in BOOLEAN,
        c \in RegisteredCommands("discord") \cup {Null} :
       /\ (~g => c = Null)
       /\ (g => ch)
       /\ msg' = [source |-> "discord", hasGuild |-> g, hasChannel |-> ch,
                  byBot |-> b, command |-> c]
  /\ cmd' = NoCmd
  /\ processed' = FALSE
  /\ IF DropsMessage(discordClientReady)
       THEN /\ hist' = [NoHist EXCEPT !.dropped = TRUE, !.logged = "w"]
            /\ pc' = "idle"
       ELSE /\ hist' = [NoHist EXCEPT !.templatesBefore = templates, !.rowsBefore = permRows]
            /\ pc' = "normalize"
  /\ UNCHANGED <<discordClientReady, readyPc, guildUpdates, alive, templates, permRows,
                 sendsInFlight, escaped>>
  /\ UNCHANGED <<cleanVars, replyVars, commandVars>>

\* BaseMessage.createFromDiscord
DiscordNormalize ==
  /\ alive /\ pc = "normalize"
  /\ \/ pc' = HandlerStepAfter("normalize", msg) /\ hist' = [hist EXCEPT !.normalized = TRUE]
     \/ pc' = "idle" /\ hist' = Caught(hist, "normalize")
  /\ UNCHANGED <<discordClientReady, readyPc, guildUpdates, alive, msg, cmd, processed,
                 templates, permRows, sendsInFlight, escaped>>
  /\ UNCHANGED <<cleanVars, replyVars, commandVars>>

\* await dbManager.updateGuilds
DiscordUpdateGuilds ==
  /\ alive /\ pc = "updateGuilds"
  /\ \/ /\ pc' = HandlerStepAfter("updateGuilds", msg)
        /\ hist' = [hist EXCEPT !.reconciled = Append(@, "updateGuilds")]
     \/ pc' = "idle" /\ hist' = Caught(hist, "updateGuilds")
  /\ UNCHANGED <<discordClientReady, readyPc, guildUpdates, alive, msg, cmd, processed,
                 templates, permRows, sendsInFlight, escaped>>
  /\ UNCHANGED <<cleanVars, replyVars, commandVars>>

\* await scheduler.syncTasks, then the branch on the guild
DiscordSyncTasks ==
  /\ alive /\ pc = "syncTasks"
  /\ \/ /\ pc' = HandlerStepAfter("syncTasks", msg)
        /\ hist' = [hist EXCEPT !.reconciled = Append(@, "syncTasks")]
     \/ pc' = "idle" /\ hist' = Caught(hist, "syncTasks")
  /\ UNCHANGED <<discordClientReady, readyPc, guildUpdates, alive, msg, cmd, processed,
                 templates, permRows, sendsInFlight, escaped>>
  /\ UNCHANGED <<cleanVars, replyVars, commandVars>>

\* await dbManager.updateGuild(guild); the bot's own messages stop here
DiscordUpdateGuild ==
  /\ alive /\ pc = "updateGuild"
  /\ \/ /\ pc' = HandlerStepAfter("updateGuild", msg)
        /\ hist' = [hist EXCEPT !.reconciled = Append(@, "updateGuild")]
     \/ pc' = "idle" /\ hist' = Caught(hist, "updateGuild")
  /\ UNCHANGED <<discordClientReady, readyPc, guildUpdates, alive, msg, cmd, processed,
                 templates, permRows, sendsInFlight, escaped>>
  /\ UNCHANGED <<cleanVars, replyVars, commandVars>>

\* await commandsParser.parsePrivateDiscordCommand
DiscordPrivate ==
  /\ alive /\ pc = "private"
  /\ \/ pc' = "idle" /\ hist' = [hist EXCEPT !.privateHandled = TRUE]
     \/ pc' = "idle" /\ hist' = Caught([hist EXCEPT !.privateHandled = TRUE], "private")
  /\ UNCHANGED <<discordClientReady, readyPc, guildUpdates, alive, msg, cmd, processed,
                 templates, permRows, sendsInFlight, escaped>>
  /\ UNCHANGED <<cleanVars, replyVars, commandVars>>

\* ---------------------------------------------------- Slack 'message' handler

\* new SlackMessage(...), then straight into the try block
SlackReceive ==
  /\ alive /\ pc = "idle"
  /\ \E b \in BOOLEAN, c \in RegisteredCommands("slack") \cup {Null} :
       msg' = [source |-> "slack", hasGuild |-> TRUE, hasChannel |-> TRUE,
               byBot |-> b, command |-> c]
  /\ cmd' = NoCmd
  /\ processed' = FALSE
  /\ hist' = [NoHist EXCEPT !.templatesBefore = templates, !.rowsBefore = permRows]
  /\ pc' = "process"
  /\ UNCHANGED <<discordClientReady, readyPc, guildUpdates, alive, templates, permRows,
                 sendsInFlight, escaped>>
  /\ UNCHANGED <<cleanVars, replyVars, commandVars>>

\* mutant: moderation whatever processMessage returned
ShouldModerateAlways(p) == TRUE

\* whether the handler hands the message to moderation after processMessage
ShouldModerate(p) == ~p

\* processed = await processMessage(message); if (!processed) premoderate...
HandlerAfterProcess ==
  /\ alive /\ pc = "afterProcess"
  /\ pc' = "idle"
  /\ IF ShouldModerate(processed)
       THEN \/ hist' = [hist EXCEPT !.moderated = TRUE]
            \/ hist' = Caught([hist EXCEPT !.moderated = TRUE], "moderate")
       ELSE hist' = hist
  /\ cmd' = NoCmd
  /\ UNCHANGED <<discordClientReady, readyPc, guildUpdates, alive, msg, processed,
                 templates, permRows, sendsInFlight, escaped>>
  /\ UNCHANGED <<cleanVars, replyVars, commandVars>>


\* ------------------------------------------- command parser / dispatcher

NoValuePrefix ==
  "Sorry, could not understand the command. Reason: You did not specify any value for argument:"

\* an argument has a value when it was scanned or the command has a default
ArgHasValue(source, c, supplied, arg) ==
  arg \in supplied \/ getDefaultArgValue(source, c, arg) # Null

\* positions of the nonNull arguments left without a value
MissingNonNull(source, c, supplied) ==
  { k \in 1..Len(getDefinedArgs(c)) :
      /\ getDefinedArgs(c)[k].nonNull
      /\ ~ArgHasValue(source, c, supplied, getDefinedArgs(c)[k].name) }

FirstOf(S) == CHOOSE k \in S : \A j \in S : k <= j

\* Normalized -> CommandIdentified: a miss reports "not a command"
ProcessMessage ==
  /\ alive /\ pc = "process"
  /\ \/ /\ msg.command = Null
        /\ processed' = FALSE
        /\ hist' = [hist EXCEPT !.processCalled = TRUE, !.processResult = "false"]
        /\ pc' = "afterProcess"
        /\ cmd' = cmd
     \/ /\ msg.command # Null
        /\ cmd' = [NoCmd EXCEPT !.name = msg.command, !.stage = "identified"]
        /\ hist' = [hist EXCEPT !.processCalled = TRUE]
        /\ pc' = "scan"
        /\ processed' = processed
     \/ /\ hist' = Caught([hist EXCEPT !.processCalled = TRUE], "process")
        /\ pc' = "idle"
        /\ UNCHANGED <<cmd, processed>>
  /\ UNCHANGED <<discordClientReady, readyPc, guildUpdates, alive, msg,
                 templates, permRows, sendsInFlight, escaped>>
  /\ UNCHANGED <<cleanVars, replyVars, commandVars>>

\* CommandIdentified -> ArgsScanned: the arguments named or positionally filled
ScanArgs ==
  /\ alive /\ pc = "scan"
  /\ \E sup \in SUBSET ArgNames(cmd.name), inv \in BOOLEAN, ids \in SUBSET (1..MaxTemplateId) :
       /\ (inv => sup # {})
       /\ (ids # {} <=> (cmd.name = "deleteimagetemplate" /\ "ids" \in sup))
       /\ cmd' = [cmd EXCEPT !.supplied = sup, !.invalid = inv, !.ids = ids,
                             !.stage = "scanned"]
  /\ pc' = "validate"
  /\ UNCHANGED <<discordClientReady, readyPc, guildUpdates, alive, msg, processed, hist,
                 templates, permRows, sendsInFlight, escaped>>
  /\ UNCHANGED <<cleanVars, replyVars, commandVars>>

\* mutant: validation lets every value through
ValidationFailureNever(source, c, supplied, invalid) == "none"

\* whether the validator rejects the scanned values and why
ValidationFailure(source, c, supplied, invalid) ==
  IF MissingNonNull(source, c, supplied) # {} THEN "missing"
  ELSE IF invalid THEN "invalid"
  ELSE "none"

\* ArgsScanned -> ArgsValidated, or Rejected with the reason as the reply
ValidateArgs ==
  /\ alive /\ pc = "validate"
  /\ LET source == msg.source
         why == ValidationFailure(source, cmd.name, cmd.supplied, cmd.invalid)
         missing == MissingNonNull(source, cmd.name, cmd.supplied)
     IN CASE why = "missing" ->
               /\ hist' = [hist EXCEPT !.rejected = "missing",
                             !.reply = <<NoValuePrefix,
                                         getDefinedArgs(cmd.name)[FirstOf(missing)].name>>]
               /\ cmd' = [cmd EXCEPT !.stage = "rejected"]
               /\ pc' = "reply"
          [] why = "invalid" ->
               /\ hist' = [hist EXCEPT !.rejected = "invalid",
                                       !.reply = <<"validation failed">>]
               /\ cmd' = [cmd EXCEPT !.stage = "rejected"]
               /\ pc' = "reply"
          [] OTHER ->
               /\ cmd' = [cmd EXCEPT !.stage = "validated"]
               /\ hist' = hist
               /\ pc' = "permission"
  /\ UNCHANGED <<discordClientReady, readyPc, guildUpdates, alive, msg, processed,
                 templates, permRows, sendsInFlight, escaped>>
  /\ UNCHANGED <<cleanVars, replyVars, commandVars>>

\* ArgsValidated -> PermissionChecked, or Rejected naming the permission
CheckPermissions ==
  /\ alive /\ pc = "permission"
  /\ \E grants \in SUBSET NativePermissions, roles \in SUBSET RoleIds :
       LET nativeOk == NativeCheck(msg.source, cmd.name, grants)
           botOk == BotCheck(msg.source, cmd.name, permRows, roles)
       IN IF isAuthorized(nativeOk, botOk)
            THEN /\ cmd' = [cmd EXCEPT !.grants = grants, !.roles = roles,
                              !.nativeOk = nativeOk, !.botOk = botOk,
                              !.stage = "authorized"]
                 /\ hist' = hist
                 /\ pc' = "execute"
            ELSE /\ cmd' = [cmd EXCEPT !.grants = grants, !.roles = roles,
                              !.nativeOk = nativeOk, !.botOk = botOk,
                              !.stage = "rejected"]
                 /\ hist' = [hist EXCEPT !.rejected = "permission",
                                         !.reply = <<"missing permission">>]
                 /\ pc' = "reply"
  /\ UNCHANGED <<discordClientReady, readyPc, guildUpdates, alive, msg, processed,
                 templates, permRows, sendsInFlight, escaped>>
  /\ UNCHANGED <<cleanVars, replyVars, commandVars>>

\* the result texts an execution can return ("" means no reply)
ExecutionResults(c) ==
  CASE c = "clean"      -> {<<>>, <<"command_clean_success">>}
    [] c = "createrole" -> {<<>>}
    [] OTHER            -> {<<"done">>}

TemplateIdsToDeleteEveryRow(ids, rows) == rows

\* DeleteImageTemplateCommand.executeForDiscord: requested ids that exist
TemplateIdsToDelete(ids, rows) == ids \cap rows

\* deleteDiscordRows is called only when some requested id exists
CallsDeleteRows(del) == del # {}

\* PermissionChecked -> Executed: source.executeCommand(command, message)
ExecuteCommand ==
  /\ alive /\ pc = "execute"
  /\ \/ /\ cmd.name = "deleteimagetemplate"
        /\ LET del == TemplateIdsToDelete(cmd.ids, templates)
           IN /\ templates' = templates \ del
              /\ hist' = [hist EXCEPT !.executed = TRUE,
                            !.deleteCalled = CallsDeleteRows(del),
                            !.reply = IF del = {}
                                        THEN <<"command_deleteimagetemplate_no_ids_found">>
                                        ELSE <<"command_deleteimagetemplate_success">>]
        /\ cmd' = [cmd EXCEPT !.stage = "executed"]
        /\ pc' = "reply"
        /\ processed' = processed
     \/ /\ cmd.name # "deleteimagetemplate"
        /\ \E r \in ExecutionResults(cmd.name) :
             IF r = <<>>
               THEN /\ hist' = [hist EXCEPT !.executed = TRUE, !.reply = r,
                                            !.processResult = "true"]
                    /\ pc' = "afterProcess"
                    /\ processed' = TRUE
               ELSE /\ hist' = [hist EXCEPT !.executed = TRUE, !.reply = r]
                    /\ pc' = "reply"
                    /\ processed' = processed
        /\ cmd' = [cmd EXCEPT !.stage = "executed"]
        /\ templates' = templates
     \/ /\ hist' = Caught([hist EXCEPT !.executed = TRUE], "execute")
        /\ cmd' = NoCmd
        /\ pc' = "idle"
        /\ UNCHANGED <<templates, processed>>
  /\ UNCHANGED <<discordClientReady, readyPc, guildUpdates, alive, msg,
                 permRows, sendsInFlight, escaped>>
  /\ UNCHANGED <<cleanVars, replyVars, commandVars>>


\* Executed -> Replied: message.reply(text) -> source.replyToMessage: the text
\* is split and one send is started per chunk; no send is awaited
Reply ==
  /\ alive /\ pc = "reply"
  /\ \E n \in 1..MaxChunks :
       /\ sendsInFlight + n <= MaxInFlight
       /\ sendsInFlight' = sendsInFlight + n
  /\ processed' = TRUE
  /\ hist' = [hist EXCEPT !.processResult = "true"]
  /\ pc' = "afterProcess"
  /\ UNCHANGED <<discordClientReady, readyPc, guildUpdates, alive, msg, cmd,
                 templates, permRows, escaped>>
  /\ UNCHANGED <<cleanVars, replyVars, commandVars>>

\* a chunk send settles. Its promise was dropped by replyToMessage / reply, so
\* a rejection is an unhandled rejection: depending on the runtime it is only
\* reported by node or it ends the process.
SendSettle ==
  /\ alive /\ sendsInFlight > 0
  /\ \/ /\ sendsInFlight' = sendsInFlight - 1
        /\ UNCHANGED <<escaped, alive, pc, msg, cmd, processed, hist>>
     \/ /\ sendsInFlight' = sendsInFlight - 1
        /\ escaped' = TRUE
        /\ UNCHANGED <<alive, pc, msg, cmd, processed, hist>>
     \/ /\ escaped' = TRUE
        /\ alive' = FALSE
        /\ sendsInFlight' = 0
        /\ pc' = "idle" /\ msg' = NoMsg /\ cmd' = NoCmd
        /\ processed' = FALSE /\ hist' = NoHist
  /\ UNCHANGED <<discordClientReady, readyPc, guildUpdates, templates, permRows>>
  /\ UNCHANGED <<cleanVars, replyVars, commandVars>>

\* ------------------------------------------------- replyToMessage in detail
\* A text is the sequence of the lengths of its lines (the characters other
\* than the newline are not told apart): <<3, 0, 2>> is "xxx\n\nxx" and <<0>>
\* is the empty text.

DiscordMaxTextLength == 2000

SlackMaxTextLength == 40000

\* mutant: the Slack limit is used on every source
MaxTextLengthSlackForAll(source) == SlackMaxTextLength

\* the MaxTextLength each source hands to splitText
MaxTextLength(source) ==
  IF source = "discord" THEN DiscordMaxTextLength ELSE SlackMaxTextLength

RECURSIVE SeqSum(_)
SeqSum(q) == IF q = <<>> THEN 0 ELSE Head(q) + SeqSum(Tail(q))

\* text.length: the characters of the lines and a newline between two lines
TextLength(text) == SeqSum(text) + Len(text) - 1

\* the most whole leading lines that fit maxLength together with their newlines
LinesThatFit(text, maxLength) ==
  LET fits == { j \in 0..(Len(text) - 1) : SeqSum(SubSeq(text, 1, j)) + j <= maxLength }
  IN CHOOSE j \in fits : \A k \in fits : k <= j

\* Utils.splitText(text, maxLength): a text within the limit is one chunk;
\* otherwise cut after the last newline at or before the limit, or, when the
\* first line alone does not fit, after maxLength characters
RECURSIVE splitText(_, _)
splitText(text, maxLength) ==
  IF TextLength(text) <= maxLength THEN << text >>
  ELSE LET j == LinesThatFit(text, maxLength)
       IN IF j >= 1
            THEN << SubSeq(text, 1, j) \o <<0>> >>
                   \o splitText(SubSeq(text, j + 1, Len(text)), maxLength)
            ELSE << <<maxLength>> >>
                   \o splitText(<<text[1] - maxLength>> \o Tail(text), maxLength)

\* mutant: the callback passes the outer `text` instead of its own parameter
SendArgumentOuterText(chs, text, i) == text

\* .map(text => sendText(text)): the i-th send call gets the i-th chunk
SendArgument(chs, text, i) == chs[i]

\* mutant: only the first send is started, the next ones wait for it
SendsStartedOneByOne(n) == IF n = 0 THEN {} ELSE {1}

\* .map calls its callback for every chunk before it returns, and each
\* callback calls send before its first await
SendsStartedByMap(n) == 1..n

\* the line lengths tried around a limit
LineLengths(limit) == {0, limit - 1, limit, limit + 1}

\* the non-empty reply texts tried for a source
ReplyTexts(source) ==
  { t \in UNION { [1..n -> LineLengths(MaxTextLength(source))] : n \in 1..MaxLines } :
      TextLength(t) >= 1 }

ReplyIdle ==
  /\ rpc = "none"
  /\ rsource = Null
  /\ rtext = <<0>>
  /\ chunks = <<>>
  /\ sends = <<>>

\* DiscordUtils.sendToTextChannel / SlackSource.replyToMessage: split, then
\* one send call per chunk, none awaited
ReplyToMessage ==
  /\ alive /\ rpc = "start"
  /\ LET chs == splitText(rtext, MaxTextLength(rsource))
     IN /\ chunks' = chs
        /\ sends' = [i \in 1..Len(chs) |->
                       [text |-> SendArgument(chs, rtext, i),
                        state |-> IF i \in SendsStartedByMap(Len(chs))
                                    THEN "pending" ELSE "none"]]
  /\ rpc' = "sent"
  /\ UNCHANGED <<rsource, rtext>>
  /\ UNCHANGED <<discordClientReady, readyPc, guildUpdates, alive, pc, msg, cmd, processed, hist,
                 templates, permRows, sendsInFlight, escaped>>
  /\ UNCHANGED <<cleanVars, commandVars>>

\* discordChannel.send / client.chat.postMessage settles, in any order. A
\* rejection has no handler: node reports it or ends the process, and with the
\* process its memory is gone.
ChunkSendSettle ==
  /\ alive /\ rpc = "sent"
  /\ \E i \in 1..Len(sends) :
       /\ sends[i].state = "pending"
       /\ \/ /\ sends' = [sends EXCEPT ![i].state = "ok"]
             /\ UNCHANGED <<alive, escaped, rpc, rsource, rtext, chunks>>
          \/ /\ sends' = [sends EXCEPT ![i].state = "failed"]
             /\ escaped' = TRUE
             /\ UNCHANGED <<alive, rpc, rsource, rtext, chunks>>
          \/ /\ escaped' = TRUE
             /\ alive' = FALSE
             /\ rpc' = "none" /\ rsource' = Null /\ rtext' = <<0>>
             /\ chunks' = <<>> /\ sends' = <<>>
  /\ UNCHANGED <<discordClientReady, readyPc, guildUpdates, pc, msg, cmd, processed, hist,
                 templates, permRows, sendsInFlight>>
  /\ UNCHANGED <<cleanVars, commandVars>>

\* ---------------------------------------- CreateRoleCommand.executeForSlack

\* roleNames holds 1..MaxRoleNames names
MaxRoleNames == 3

RoleNames == {"a", "b"}

RoleNameLists == UNION { [1..n -> RoleNames] : n \in 1..MaxRoleNames }

ParentRoleNames == {Null, "p"}

CreateIdle ==
  /\ crpc = "none"
  /\ crArgs = [roleNames |-> <<>>, parentRoleName |-> Null]
  /\ ck = 0
  /\ slackCalls = <<>>
  /\ conversations = <<>>
  /\ rolesTable = {}
  /\ crResult = "none"

\* client.conversations.create({ is_private: true, name: roleName })
ConversationsCreate(roleName) ==
  [op |-> "create", name |-> roleName, state |-> "pending"]

\* client.conversations.list({ types: 'public_channel,private_channel' })
ConversationsList == [op |-> "list", name |-> Null, state |-> "pending"]

ContinuesAfterRejectedCreateCaught == TRUE

\* the create call is awaited inside the loop with no try around it: a
\* rejection leaves the loop and the function
ContinuesAfterRejectedCreate == FALSE

ReturnsAfterListRemoved == FALSE

\* `return '';` right after the list call
ReturnsAfterList == TRUE

\* the permission row built for a role name when parentRoleName is given (its
\* filter names the parent role)
RolePermissionRow(roleName) ==
  [source |-> "slack", orgId |-> ActorOrg, subjectType |-> "role",
   subjectId |-> roleName, permissionType |-> "role"]

Settle(log, state) == [log EXCEPT ![Len(log)].state = state]

\* the for-of loop and what follows it, from role name k on: the next create
\* call if a name is left, else the list call
CreateRoleContinue(log, k) ==
  IF k <= Len(crArgs.roleNames)
    THEN /\ slackCalls' = Append(log, ConversationsCreate(crArgs.roleNames[k]))
         /\ ck' = k
         /\ crpc' = "create"
    ELSE /\ slackCalls' = Append(log, ConversationsList)
         /\ ck' = k
         /\ crpc' = "list"

\* entry into executeForSlack up to the first await
CreateRoleStart ==
  /\ crpc = "start"
  /\ CreateRoleContinue(slackCalls, 1)
  /\ UNCHANGED <<crArgs, conversations, rolesTable, crResult>>
  /\ UNCHANGED <<listenerVars, cleanVars, replyVars, deleteVars>>

\* the awaited conversations.create settles
CreateRoleCreated ==
  /\ crpc = "create"
  /\ \/ /\ conversations' = Append(conversations, crArgs.roleNames[ck])
        /\ CreateRoleContinue(Settle(slackCalls, "ok"), ck + 1)
     \/ /\ conversations' = conversations
        /\ IF ContinuesAfterRejectedCreate
             THEN CreateRoleContinue(Settle(slackCalls, "failed"), ck + 1)
             ELSE /\ slackCalls' = Settle(slackCalls, "failed")
                  /\ ck' = ck
                  /\ crpc' = "failed"
  /\ UNCHANGED <<crArgs, rolesTable, crResult>>
  /\ UNCHANGED <<listenerVars, cleanVars, replyVars, deleteVars>>

\* the awaited conversations.list settles; what the function does after it
CreateRoleListed ==
  /\ crpc = "list"
  /\ \/ /\ slackCalls' = Settle(slackCalls, "ok")
        /\ crpc' = "done"
        /\ IF ReturnsAfterList
             THEN /\ crResult' = ""
                  /\ UNCHANGED <<rolesTable, permRows>>
             ELSE /\ rolesTable' = rolesTable \cup
                                     { crArgs.roleNames[i] : i \in 1..Len(crArgs.roleNames) }
                  /\ permRows' =
                       IF crArgs.parentRoleName # Null
                         THEN permRows \cup { RolePermissionRow(crArgs.roleNames[i]) :
                                                i \in 1..Len(crArgs.roleNames) }
                         ELSE permRows
                  /\ crResult' = "command_createrole_success"
     \/ /\ slackCalls' = Settle(slackCalls, "failed")
        /\ crpc' = "failed"
        /\ UNCHANGED <<rolesTable, permRows, crResult>>
  /\ UNCHANGED <<crArgs, ck, conversations>>
  /\ UNCHANGED <<discordClientReady, readyPc, guildUpdates, alive, pc, msg, cmd, processed, hist,
                 templates, sendsInFlight, escaped>>
  /\ UNCHANGED <<cleanVars, replyVars, deleteVars>>

NextCreateRole ==
  \/ CreateRoleStart
  \/ CreateRoleCreated
  \/ CreateRoleListed

\* ------------------------------- DeleteImageTemplateCommand.executeForDiscord

\* template ids are 1..MaxDeleteTemplateId
MaxDeleteTemplateId == 3

DeleteTemplateIds == 1..MaxDeleteTemplateId

OrgIds == {"org1", "org2"}

\* two executions in flight at once
Executions == {1, 2}

DeleteIdle ==
  /\ dpc = [e \in Executions |-> "none"]
  /\ dArgs = [e \in Executions |-> [orgId |-> Null, ids |-> {}]]
  /\ dRead = [e \in Executions |-> {}]
  /\ dTable = {}
  /\ dTable0 = {}
  /\ dResult = [e \in Executions |-> "none"]
  /\ dCalls = <<>>

CommandsIdle == CreateIdle /\ DeleteIdle

\* dbManager.getDiscordRows(table, orgId): the organization's rows
getDiscordRows(table, org) == { r \in table : r[1] = org }

\* dbManager.deleteDiscordRows(table, orgId, query): the rows it removes, those
\* of the organization that the query matches; a query id with no row matches
\* nothing
deleteDiscordRows(table, org, query) ==
  { r \in table : r[1] = org /\ r[2] \in query }

DeleteQueryFirstId(toDelete) ==
  IF toDelete = {} THEN {}
  ELSE { CHOOSE i \in toDelete : \A j \in toDelete : i <= j }

\* deleteQuery = { $or: [{ id: ... }, ...] } over every id in
\* templateIdsToDelete
DeleteQuery(toDelete) == toDelete

\* getDiscordRows settles; then everything up to the deleteDiscordRows call or
\* the early return
DeleteTemplatesRead(e) ==
  /\ dpc[e] = "start"
  /\ \/ LET templateIds == { r[2] : r \in getDiscordRows(dTable, dArgs[e].orgId) }
            toDelete == TemplateIdsToDelete(dArgs[e].ids, templateIds)
        IN /\ dRead' = [dRead EXCEPT ![e] = templateIds]
           /\ IF CallsDeleteRows(toDelete)
                THEN /\ dCalls' = Append(dCalls, [exec |-> e, orgId |-> dArgs[e].orgId,
                                                  query |-> DeleteQuery(toDelete),
                                                  removed |-> {}, state |-> "pending"])
                     /\ dpc' = [dpc EXCEPT ![e] = "delete"]
                     /\ dResult' = dResult
                ELSE /\ dCalls' = dCalls
                     /\ dpc' = [dpc EXCEPT ![e] = "done"]
                     /\ dResult' = [dResult EXCEPT ![e] =
                                      "command_deleteimagetemplate_no_ids_found"]
     \/ /\ dpc' = [dpc EXCEPT ![e] = "failed"]
        /\ UNCHANGED <<dRead, dCalls, dResult>>
  /\ UNCHANGED <<dArgs, dTable, dTable0>>
  /\ UNCHANGED <<listenerVars, cleanVars, replyVars, createVars>>

\* the awaited deleteDiscordRows settles
DeleteTemplatesDelete(e) ==
  /\ dpc[e] = "delete"
  /\ \E i \in 1..Len(dCalls) :
       /\ dCalls[i].exec = e
       /\ \/ LET gone == deleteDiscordRows(dTable, dCalls[i].orgId, dCalls[i].query)
             IN /\ dTable' = dTable \ gone
                /\ dCalls' = [dCalls EXCEPT ![i].removed = gone, ![i].state = "ok"]
                /\ dpc' = [dpc EXCEPT ![e] = "done"]
                /\ dResult' = [dResult EXCEPT ![e] =
                                 "command_deleteimagetemplate_success"]
          \/ /\ dCalls' = [dCalls EXCEPT ![i].state = "failed"]
             /\ dpc' = [dpc EXCEPT ![e] = "failed"]
             /\ UNCHANGED <<dTable, dResult>>
  /\ UNCHANGED <<dArgs, dRead, dTable0>>
  /\ UNCHANGED <<listenerVars, cleanVars, replyVars, createVars>>

\* ------------------------------------------ CleanCommand.executeForDiscord

MESSAGES_FETCH_LIMIT == 50

ChannelIds == {"c1", "c2"}

\* the channel lists the channelIds argument resolves to; c1 is the channel
\* the invoking message was posted in
ChannelLists == { <<"c1">>, <<"c1", "c2">>, <<"c2", "c1">> }

\* totalMillisecondsShift of the time argument (nonZeroShift)
Shifts == {-1, 1, 2, MESSAGES_FETCH_LIMIT + 1}

\* SilentArgPredefinedValues, localized
SilentArgPredefinedValues == {"silent", "s"}

\* this.silent when nothing assigned it
Undefined == "undefined"

\* values of the silent argument: absent, empty, a keyword, anything else
SilentValues == {Null, Undefined, "", "other"} \cup SilentArgPredefinedValues

\* timestampLimit = discordMessage.createdTimestamp - time.totalMillisecondsShift
timestampLimit(args) == args.createdTimestamp - args.shift

\* channel.messages.fetch({limit}): the most recent `limit` messages
FetchPage(content, limit) ==
  { m \in content : Cardinality({ x \in content : x > m }) < limit }

\* mutant: a message exactly at the cutoff is deleted too
IsNewerOrAtLimit(createdTimestamp, limit) == createdTimestamp >= limit

\* the test that selects a fetched message for deletion
IsNewerThanLimit(createdTimestamp, limit) == createdTimestamp > limit

\* mutant: only the messages selected for deletion are counted
CheckedOnlyDeleted(messagesArray, toDelete) == Cardinality(toDelete)

\* what one fetched page adds to checkedCount
CheckedInPage(messagesArray, toDelete) == Cardinality(messagesArray)

\* mutant: the empty string is not taken as silent
isSilentKeywordsOnly(silent) ==
  IF silent = Null \/ silent = Undefined THEN FALSE
  ELSE IF \E key \in {"silent", "s"} : silent = key THEN TRUE
  ELSE FALSE

isSilentWheneverGiven(silent) ==
  IF silent = Null \/ silent = Undefined THEN FALSE
  ELSE TRUE

\* CleanCommand.isSilent
isSilent(silent) ==
  IF silent = Null \/ silent = Undefined THEN FALSE
  ELSE IF silent = "" THEN TRUE
  ELSE IF \E key \in SilentArgPredefinedValues : silent = key THEN TRUE
  ELSE FALSE

\* langManager.getString(id, ...args)
getString(id, args) == <<id>> \o args

\* message.channel.id of the invoking message
InvokingChannel == "c1"

NoScan == [named |-> {}, positional |-> 0, boundBy |-> <<>>]

\* the arguments left to sequential reading, in declaration order: those not
\* given by name and not marked skipInSequentialRead
RECURSIVE SequentialArgs(_, _)
SequentialArgs(defs, named) ==
  IF defs = <<>> THEN <<>>
  ELSE IF Head(defs).name \in named \/ Head(defs).skipInSequentialRead
         THEN SequentialArgs(Tail(defs), named)
         ELSE <<Head(defs).name>> \o SequentialArgs(Tail(defs), named)

\* how each argument of the command gets its value from an invocation with
\* the given named arguments and number of tokens without a name
BoundBy(c, named, positional) ==
  LET seq == SequentialArgs(getDefinedArgs(c), named)
  IN [a \in ArgNames(c) |->
        IF a \in named THEN "named"
        ELSE IF \E k \in 1..Len(seq) : k <= positional /\ seq[k] = a THEN "positional"
        ELSE IF getDefaultDiscordArgValue(c, a) # Null THEN "default"
        ELSE "none"]

CleanIdle ==
  /\ cpc = "none"
  /\ cleanArgs = [channels |-> <<>>, shift |-> 0, silent |-> Null, createdTimestamp |-> 0]
  /\ chan = [c \in ChannelIds |-> {}]
  /\ chan0 = [c \in ChannelIds |-> {}]
  /\ ci = 0
  /\ needRefetch = FALSE
  /\ messagesToDelete = {}
  /\ deletedCount = 0
  /\ checkedCount = 0
  /\ deleted = {}
  /\ result = <<>>
  /\ calls = <<>>
  /\ scan = NoScan

ListenerIdle ==
  /\ InitListener
  /\ permRows = {}

\* the state on entry to executeForDiscord: arguments bound, channels as found
InitClean ==
  /\ ListenerIdle
  /\ ReplyIdle
  /\ CommandsIdle
  /\ \E chs \in ChannelLists, sh \in Shifts, sil \in SilentValues :
       cleanArgs = [channels |-> chs, shift |-> sh, silent |-> sil,
                    createdTimestamp |-> InvokeTimestamp]
  /\ \E n1 \in 0..MaxMessages, n2 \in 0..MaxOtherMessages :
       chan = [c \in ChannelIds |->
                 IF c = "c1" THEN { InvokeTimestamp - k : k \in 0..(n1 - 1) }
                             ELSE { InvokeTimestamp - k : k \in 1..n2 }]
  /\ chan0 = chan
  /\ cpc = "start"
  /\ ci = 1
  /\ needRefetch = FALSE
  /\ messagesToDelete = {}
  /\ deletedCount = 0
  /\ checkedCount = 0
  /\ deleted = {}
  /\ result = <<>>
  /\ calls = <<>>
  /\ scan = NoScan

\* channel.messages.fetch({ limit: MESSAGES_FETCH_LIMIT }) being called
FetchCall(i) ==
  [op |-> "fetch", i |-> i, limit |-> MESSAGES_FETCH_LIMIT, outcome |-> "pending",
   newer |-> 0]

\* channel.bulkDelete(messagesToDelete) being called
DeleteCall(i, toDelete) ==
  [op |-> "bulkDelete", i |-> i, limit |-> 0, outcome |-> "pending",
   newer |-> Cardinality(toDelete)]

\* the awaited call, the last one made, settles
Settled(log, outcome, newer) ==
  [log EXCEPT ![Len(log)].outcome = outcome, ![Len(log)].newer = newer]

\* mutant: a rejected call is made again
RetryAfterRejectedAwait(at) == at

\* a rejected await is not caught inside executeForDiscord: the function ends
AfterRejectedAwait(at) == "failed"

\* mutant: another page is fetched whenever the page came back full
NeedRefetchWhenPageFull(messagesArray, toDelete) ==
  Cardinality(messagesArray) = MESSAGES_FETCH_LIMIT

\* mutant: another page is fetched as long as the page was not empty
NeedRefetchWhilePageNotEmpty(messagesArray, toDelete) == messagesArray # {}

\* needRefetch after the scan of a page: some message was newer than the limit
NeedRefetch(messagesArray, toDelete) == toDelete # {}

\* the first statements, up to the first fetch call
CleanStart ==
  /\ cpc = "start"
  /\ cpc' = "fetch"
  /\ calls' = Append(calls, FetchCall(ci))
  /\ UNCHANGED <<cleanArgs, chan, chan0, ci, needRefetch, messagesToDelete,
                 deletedCount, checkedCount, deleted, result, scan>>
  /\ UNCHANGED <<listenerVars, replyVars, commandVars>>

\* for (let i = 0; i < channels.length; i++): the next channel's first fetch
\* call, or the end
NextChannel(log) ==
  IF ci < Len(cleanArgs.channels)
    THEN /\ ci' = ci + 1 /\ cpc' = "fetch" /\ calls' = Append(log, FetchCall(ci + 1))
    ELSE /\ ci' = ci /\ cpc' = "finish" /\ calls' = log

\* await channel.messages.fetch, then the synchronous scan of the page up to
\* the bulkDelete call
CleanFetch ==
  /\ cpc = "fetch"
  /\ LET ch == cleanArgs.channels[ci]
         messagesArray == FetchPage(chan[ch], MESSAGES_FETCH_LIMIT)
         toDelete == { m \in messagesArray : IsNewerThanLimit(m, timestampLimit(cleanArgs)) }
         done == Settled(calls, "ok", Cardinality(toDelete))
     IN \/ /\ messagesArray = {}
           /\ NextChannel(done)
           /\ needRefetch' = FALSE
           /\ UNCHANGED <<messagesToDelete, deletedCount, checkedCount>>
        \/ /\ messagesArray # {}
           /\ messagesToDelete' = toDelete
           /\ needRefetch' = NeedRefetch(messagesArray, toDelete)
           /\ deletedCount' = deletedCount + Cardinality(toDelete)
           /\ checkedCount' = checkedCount + CheckedInPage(messagesArray, toDelete)
           /\ cpc' = "bulkDelete"
           /\ ci' = ci
           /\ calls' = Append(done, DeleteCall(ci, toDelete))
        \/ /\ cpc' = AfterRejectedAwait("fetch")
           /\ calls' = Settled(calls, "failed", 0)
           /\ UNCHANGED <<ci, needRefetch, messagesToDelete, deletedCount, checkedCount>>
  /\ UNCHANGED <<cleanArgs, chan, chan0, deleted, result, scan>>
  /\ UNCHANGED <<listenerVars, replyVars, commandVars>>

\* await channel.bulkDelete(messagesToDelete), then while (needRefetch)
CleanBulkDelete ==
  /\ cpc = "bulkDelete"
  /\ LET ch == cleanArgs.channels[ci]
         done == Settled(calls, "ok", calls[Len(calls)].newer)
     IN \/ /\ chan' = [chan EXCEPT ![ch] = @ \ messagesToDelete]
           /\ deleted' = deleted \cup { <<ch, m>> : m \in messagesToDelete }
           /\ IF needRefetch
                THEN /\ cpc' = "fetch" /\ ci' = ci
                     /\ calls' = Append(done, FetchCall(ci))
                ELSE NextChannel(done)
        \/ /\ cpc' = AfterRejectedAwait("bulkDelete")
           /\ calls' = Settled(calls, "failed", calls[Len(calls)].newer)
           /\ UNCHANGED <<chan, deleted, ci>>
  /\ UNCHANGED <<cleanArgs, chan0, needRefetch, messagesToDelete,
                 deletedCount, checkedCount, result, scan>>
  /\ UNCHANGED <<listenerVars, replyVars, commandVars>>

\* the result text: empty when silent
CleanFinish ==
  /\ cpc = "finish"
  /\ result' =
       IF ~isSilent(cleanArgs.silent)
         THEN IF Len(cleanArgs.channels) > 1
                THEN getString("command_clean_success_multi_channels",
                               <<deletedCount, checkedCount, Len(cleanArgs.channels)>>)
                ELSE getString("command_clean_success", <<deletedCount, checkedCount>>)
         ELSE <<>>
  /\ cpc' = "done"
  /\ UNCHANGED <<cleanArgs, chan, chan0, ci, needRefetch, messagesToDelete,
                 deletedCount, checkedCount, deleted, calls, scan>>
  /\ UNCHANGED <<listenerVars, replyVars, commandVars>>

NextClean ==
  \/ CleanStart
  \/ CleanFetch
  \/ CleanBulkDelete
  \/ CleanFinish

SpecClean == InitClean /\ [][NextClean]_vars

\* a clean invocation about to be scanned: which arguments it names and how
\* many tokens it has besides; the time argument gets a value one way or the
\* other, and the channels hold a few messages
InitCleanScan ==
  /\ ListenerIdle
  /\ ReplyIdle
  /\ CommandsIdle
  /\ \E named \in SUBSET ArgNames("clean"), positional \in 0..MaxPositional :
       /\ ("time" \in named \/ positional >= 1)
       /\ scan = [named |-> named, positional |-> positional, boundBy |-> <<>>]
  /\ cleanArgs = [channels |-> <<>>, shift |-> 0, silent |-> Null,
                  createdTimestamp |-> InvokeTimestamp]
  /\ \E n1 \in 0..MaxOtherMessages, n2 \in 0..MaxOtherMessages :
       chan = [c \in ChannelIds |->
                 IF c = InvokingChannel THEN { InvokeTimestamp - k : k \in 0..(n1 - 1) }
                                        ELSE { InvokeTimestamp - k : k \in 1..n2 }]
  /\ chan0 = chan
  /\ cpc = "scan"
  /\ ci = 1
  /\ needRefetch = FALSE
  /\ messagesToDelete = {}
  /\ deletedCount = 0
  /\ checkedCount = 0
  /\ deleted = {}
  /\ result = <<>>
  /\ calls = <<>>

\* CommandIdentified -> ArgsScanned for clean: named arguments take their
\* values, the other tokens are read sequentially, and an argument left
\* without a value gets the command's default
CleanScanArgs ==
  /\ cpc = "scan"
  /\ LET by == BoundBy("clean", scan.named, scan.positional)
     IN /\ scan' = [scan EXCEPT !.boundBy = by]
        /\ \E chs \in ChannelLists, sh \in Shifts, sil \in SilentValues :
             /\ by["channelIds"] = "default" =>
                   (getDefaultDiscordArgValue("clean", "channelIds") = "currentChannel"
                      /\ chs = <<InvokingChannel>>)
             /\ by["channelIds"] = "none" => chs = <<>>
             /\ (by["silent"] = "none" <=> sil = Null)
             /\ cleanArgs' = [channels |-> chs, shift |-> sh, silent |-> sil,
                              createdTimestamp |-> InvokeTimestamp]
  /\ cpc' = "start"
  /\ UNCHANGED <<chan, chan0, ci, needRefetch, messagesToDelete,
                 deletedCount, checkedCount, deleted, result, calls>>
  /\ UNCHANGED <<listenerVars, replyVars, commandVars>>

NextCleanScan ==
  \/ CleanScanArgs
  \/ NextClean

SpecCleanScan == InitCleanScan /\ [][NextCleanScan]_vars

\* the loop does not read the silent argument: one value stands for all
InitCleanFair == InitClean /\ cleanArgs.silent = Null

\* every awaited fetch and bulkDelete settles, and the code between two awaits
\* runs
SpecCleanFair == InitCleanFair /\ [][NextClean]_vars /\ WF_vars(NextClean)

\* the state on entry to replyToMessage with a non-empty text
InitReply ==
  /\ ListenerIdle
  /\ CleanIdle
  /\ CommandsIdle
  /\ rpc = "start"
  /\ rsource \in {"discord", "slack"}
  /\ rtext \in ReplyTexts(rsource)
  /\ chunks = <<>>
  /\ sends = <<>>

NextReply ==
  \/ ReplyToMessage
  \/ ChunkSendSettle

SpecReply == InitReply /\ [][NextReply]_vars

\* the state on entry to executeForSlack: arguments bound and validated
InitCreateRole ==
  /\ ListenerIdle
  /\ CleanIdle
  /\ ReplyIdle
  /\ DeleteIdle
  /\ crpc = "start"
  /\ \E names \in RoleNameLists, parent \in ParentRoleNames :
       crArgs = [roleNames |-> names, parentRoleName |-> parent]
  /\ ck = 0
  /\ slackCalls = <<>>
  /\ conversations = <<>>
  /\ rolesTable = {}
  /\ crResult = "none"

SpecCreateRole == InitCreateRole /\ [][NextCreateRole]_vars

\* two executions entering executeForDiscord, the first for org1; the table
\* holds rows of both organizations
InitDelete ==
  /\ ListenerIdle
  /\ CleanIdle
  /\ ReplyIdle
  /\ CreateIdle
  /\ dpc = [e \in Executions |-> "start"]
  /\ \E ids1 \in SUBSET DeleteTemplateIds, ids2 \in SUBSET DeleteTemplateIds,
        org2 \in OrgIds :
       dArgs = [e \in Executions |->
                  IF e = 1 THEN [orgId |-> "org1", ids |-> ids1]
                           ELSE [orgId |-> org2, ids |-> ids2]]
  /\ dRead = [e \in Executions |-> {}]
  /\ \E rows \in SUBSET DeleteTemplateIds :
       dTable = { <<"org1", i>> : i \in rows } \cup { <<"org2", i>> : i \in DeleteTemplateIds }
  /\ dTable0 = dTable
  /\ dResult = [e \in Executions |-> "none"]
  /\ dCalls = <<>>

NextDelete ==
  \/ \E e \in Executions : DeleteTemplatesRead(e)
  \/ \E e \in Executions : DeleteTemplatesDelete(e)

SpecDelete == InitDelete /\ [][NextDelete]_vars

Init == InitListener /\ CleanIdle /\ ReplyIdle /\ CommandsIdle

Next ==
  \/ ReadyUpdateGuild
  \/ ReadyUpdateGuilds
  \/ ReadySyncTasks
  \/ DiscordReceive
  \/ DiscordNormalize
  \/ DiscordUpdateGuilds
  \/ DiscordSyncTasks
  \/ DiscordUpdateGuild
  \/ DiscordPrivate
  \/ SlackReceive
  \/ ProcessMessage
  \/ ScanArgs
  \/ ValidateArgs
  \/ CheckPermissions
  \/ ExecuteCommand
  \/ Reply
  \/ HandlerAfterProcess
  \/ SendSettle

Spec == Init /\ [][Next]_vars


\* ------------------------------------------------------------------ claims

\* the native permissions a command declares for the source it runs on
DeclaredNative(source, c) ==
  IF source = "discord" THEN getRequiredDiscordPermissions(c)
                        ELSE getRequiredSlackPermissions(c)

NativePasses(source, c, grants) ==
  \A p \in DeclaredNative(source, c) : hasPermissionInChannel(source, grants, p)

HasRowFor(source, roles, permissionType) ==
  \E row \in permRows :
    RowMatches(row, source, ActorOrg, getMemberRoleIds(source, roles), permissionType)

\* the permission stage has decided for the command instance in hand
PermissionDecided ==
  /\ cmd.name # Null
  /\ \/ cmd.stage \in {"authorized", "executed"}
     \/ cmd.stage = "rejected" /\ hist.rejected = "permission"

\* C1: the execution entry point is reached only by a command instance whose
\* arguments were scanned or defaulted, whose values passed validation (no
\* nonNull argument without a value, no invalid value) and whose native and
\* bot-owned permission checks passed; a rejected message is never executed.
C1_ExecutedOnlyAfterChecks ==
  /\ (pc = "execute" \/ (hist.executed /\ cmd.name # Null)) =>
       /\ cmd.stage \in {"authorized", "executed"}
       /\ cmd.supplied \subseteq ArgNames(cmd.name)
       /\ \A k \in 1..Len(getDefinedArgs(cmd.name)) :
            getDefinedArgs(cmd.name)[k].nonNull =>
              ArgHasValue(msg.source, cmd.name, cmd.supplied, getDefinedArgs(cmd.name)[k].name)
       /\ ~cmd.invalid
       /\ NativePasses(msg.source, cmd.name, cmd.grants)
       /\ \A f \in getRequiredBotPermissions(cmd.name) : HasRowFor(msg.source, cmd.roles, f)
  /\ hist.rejected # "none" => ~hist.executed

C1_Witness ==
  /\ hist.executed /\ cmd.stage = "executed"
  /\ cmd.name = "guarded" /\ cmd.supplied # {}

\* C2: a command that declares a native and a bot-owned permission is
\* authorized exactly when the native check and the bot-owned check both pass.
C2_PermissionConjunction ==
  ( /\ PermissionDecided
    /\ DeclaredNative(msg.source, cmd.name) # {}
    /\ getRequiredBotPermissions(cmd.name) # {} ) =>
      ( cmd.stage \in {"authorized", "executed"}
          <=> ( /\ NativePasses(msg.source, cmd.name, cmd.grants)
                /\ \A f \in getRequiredBotPermissions(cmd.name) :
                     HasRowFor(msg.source, cmd.roles, f) ) )

\* native passes, bot-owned fails: denied (a disjunction would authorize)
C2_Witness ==
  /\ PermissionDecided
  /\ DeclaredNative(msg.source, cmd.name) # {}
  /\ getRequiredBotPermissions(cmd.name) # {}
  /\ msg.source = "discord"
  /\ NativePasses(msg.source, cmd.name, cmd.grants)
  /\ ~(\A f \in getRequiredBotPermissions(cmd.name) : HasRowFor(msg.source, cmd.roles, f))
  /\ cmd.stage = "rejected"

\* C3: a delete-image-template command whose actor has no imagetemplate row
\* for the organization is rejected at the permission stage, is never
\* executed, and leaves the template rows and the permission rows as they were
\* when the message arrived.
C3_NoRowNoExecutionNoWrite ==
  /\ ( /\ PermissionDecided
       /\ cmd.name = "deleteimagetemplate"
       /\ ~HasRowFor(msg.source, cmd.roles, "imagetemplate") ) =>
         /\ cmd.stage = "rejected"
         /\ ~hist.executed
         /\ templates = hist.templatesBefore
         /\ permRows = hist.rowsBefore
  /\ hist.rejected = "permission" =>
         /\ ~hist.executed
         /\ templates = hist.templatesBefore
         /\ permRows = hist.rowsBefore

C3_Witness ==
  /\ pc = "idle"
  /\ msg.command = "deleteimagetemplate"
  /\ hist.rejected = "permission"
  /\ templates # {}

\* C4: once validation has run, a nonNull argument with no scanned value and
\* no default means the command is rejected, not executed, and the reply is
\* the "did not specify any value" text followed by that argument's name; in
\* particular create-role without roleNames.
C4_MissingNonNullRejected ==
  /\ (cmd.name # Null /\ cmd.stage \notin {"identified", "scanned"}) =>
       \A k \in 1..Len(getDefinedArgs(cmd.name)) :
         LET a == getDefinedArgs(cmd.name)[k]
         IN ( /\ a.nonNull
              /\ a.name \notin cmd.supplied
              /\ getDefaultArgValue(msg.source, cmd.name, a.name) = Null ) =>
                /\ cmd.stage = "rejected"
                /\ hist.rejected = "missing"
                /\ ~hist.executed
                /\ hist.reply = <<NoValuePrefix, a.name>>
  /\ ( /\ cmd.name = "createrole"
       /\ cmd.stage \notin {"identified", "scanned"}
       /\ "roleNames" \notin cmd.supplied ) =>
         /\ ~hist.executed
         /\ hist.reply = <<NoValuePrefix, "roleNames">>

C4_Witness ==
  /\ cmd.name = "createrole"
  /\ cmd.stage = "rejected"
  /\ "roleNames" \notin cmd.supplied
  /\ "parentRoleName" \in cmd.supplied
  /\ hist.reply = <<NoValuePrefix, "roleNames">>

\* C8 (as claimed): no failure raised while a message is handled gets past the
\* handler: none is left unhandled and the process keeps handling messages.
C8_NoFailureEscapesHandler == ~escaped /\ alive

\* C9: a message is handed to moderation exactly when command processing
\* returned "not a command": never after it was processed as a command, never
\* when processing threw, and always once processing has reported a miss.
C9_ModeratedIffNotACommand ==
  /\ hist.moderated => hist.processResult = "false"
  /\ (pc = "idle" /\ hist.processResult = "false") => hist.moderated
  /\ hist.threwAt \in {"process", "execute"} => ~hist.moderated

C9_Witness ==
  /\ pc = "idle" /\ hist.moderated /\ msg.source = "discord"

\* C10: a Discord message without a guild goes to the private-message path
\* and never to processMessage or to moderation; a message with a guild never
\* goes to the private-message path.
C10_PrivateRouting ==
  /\ (msg.source = "discord" /\ ~msg.hasGuild) =>
        /\ ~hist.processCalled
        /\ ~hist.moderated
        /\ pc \notin {"updateGuild", "process", "afterProcess"}
        /\ hist.reconciled = <<"updateGuilds", "syncTasks">> => (pc = "private" \/ hist.privateHandled)
  /\ (msg.source = "discord" /\ msg.hasGuild) =>
        /\ ~hist.privateHandled
        /\ pc # "private"

C10_Witness ==
  /\ msg.source = "discord" /\ ~msg.hasGuild /\ hist.privateHandled /\ pc = "idle"

\* ---- the clean command

Listed == { cleanArgs.channels[k] : k \in 1..Len(cleanArgs.channels) }

\* the messages of a channel newer than the cutoff when the command started
Newer(ch) == { m \in chan0[ch] : m > cleanArgs.createdTimestamp - cleanArgs.shift }

Older(ch) == chan0[ch] \ Newer(ch)

RECURSIVE SumOver(_, _)
SumOver(S, f) ==
  IF S = {} THEN 0
  ELSE LET x == CHOOSE y \in S : TRUE IN f[x] + SumOver(S \ {x}, f)

TotalNewer == SumOver(Listed, [ch \in ChannelIds |-> Cardinality(Newer(ch))])

TotalOlder == SumOver(Listed, [ch \in ChannelIds |-> Cardinality(Older(ch))])

\* C5: only messages newer than the cutoff are ever deleted, and when the
\* command has finished every listed channel holds exactly its older messages:
\* all N newer ones are gone, also when N exceeds the fetch page, none of the
\* M older ones is.
C5_DeletesExactlyTheNewer ==
  /\ \A d \in deleted : d[1] \in Listed /\ d[2] \in Newer(d[1])
  /\ \A ch \in ChannelIds : Older(ch) \subseteq chan[ch]
  /\ cpc = "done" =>
       /\ \A ch \in Listed : chan[ch] = Older(ch)
       /\ \A ch \in ChannelIds \ Listed : chan[ch] = chan0[ch]
       /\ deleted = UNION { { <<ch, m>> : m \in Newer(ch) } : ch \in Listed }
       /\ deletedCount = TotalNewer

C5_Witness ==
  /\ cpc = "done"
  /\ Cardinality(Newer("c1")) > MESSAGES_FETCH_LIMIT
  /\ Older("c1") # {}
  /\ chan["c1"] = Older("c1")

Min(a, b) == IF a <= b THEN a ELSE b

\* the sizes of the pages fetched for a channel with n newer and m older
\* messages: a page per MESSAGES_FETCH_LIMIT newer messages, then a last page
RECURSIVE PagesChecked(_, _)
PagesChecked(n, m) ==
  IF n = 0 THEN Min(MESSAGES_FETCH_LIMIT, m)
  ELSE Min(MESSAGES_FETCH_LIMIT, n + m)
         + PagesChecked(n - Min(MESSAGES_FETCH_LIMIT, n), m)

TotalChecked ==
  SumOver(Listed, [ch \in ChannelIds |->
                     PagesChecked(Cardinality(Newer(ch)), Cardinality(Older(ch)))])

\* C6 (as claimed): the non-silent result reports N deleted out of N+M checked.
C6_ReportsNOutOfAll ==
  (cpc = "done" /\ result # <<>>) =>
     /\ result[2] = TotalNewer
     /\ result[3] = TotalNewer + TotalOlder

\* C6 (amended): the non-silent result reports N deleted, and as checked the
\* total size of the pages fetched: a message is counted once for every page
\* it came back in, and messages beyond the last fetched page are not counted.
C6_ReportsNOutOfPagesChecked ==
  (cpc = "done" /\ result # <<>>) =>
     /\ result[2] = TotalNewer
     /\ result[3] = TotalChecked
     /\ result[3] >= result[2]

\* an older message came back in two pages and was counted twice
C6_Witness ==
  /\ cpc = "done" /\ result # <<>>
  /\ Len(cleanArgs.channels) = 1
  /\ Cardinality(Newer("c1")) = 1 /\ Cardinality(Older("c1")) = 1
  /\ result[2] = 1 /\ result[3] = 3

\* C7: a silent argument that is empty or a silent keyword gives the empty
\* result, any other gives a non-empty text, and the deletions are the same
\* either way.
C7_SilentReturnsEmpty ==
  cpc = "done" =>
    /\ (cleanArgs.silent \in {"", "silent", "s"} => result = <<>>)
    /\ (cleanArgs.silent \notin {"", "silent", "s"} => result # <<>>)
    /\ \A ch \in Listed : chan[ch] = Older(ch)

C7_Witness ==
  /\ cpc = "done"
  /\ cleanArgs.silent = ""
  /\ result = <<>>
  /\ deleted # {}

\* ---- the message adapters

\* C11 (as claimed): the organization id and the channel id of a canonical
\* Message are both present or both null.
C11_OrgAndChannelBothOrNeither ==
  (msg.source = "slack" \/ (msg.source = "discord" /\ hist.normalized)) =>
     (orgId(msg) = Null <=> channelId(msg) = Null)

\* C11 (amended): each id follows its own payload field. The organization id
\* is null exactly when the payload has no guild, the channel id is null
\* exactly when the payload has no channel, and a guild message has both.
C11_IdsFollowTheirOwnField ==
  (msg.source = "slack" \/ (msg.source = "discord" /\ hist.normalized)) =>
     /\ (orgId(msg) = Null <=> ~msg.hasGuild)
     /\ (channelId(msg) = Null <=> ~msg.hasChannel)
     /\ (msg.hasGuild => (orgId(msg) # Null /\ channelId(msg) # Null))

\* a private Discord message: no organization id, the channel id is there
C11_Witness ==
  /\ msg.source = "discord" /\ hist.normalized
  /\ ~msg.hasGuild /\ msg.hasChannel
  /\ orgId(msg) = Null /\ channelId(msg) # Null
  /\ hist.privateHandled

\* ---- the reply

\* two texts put end to end: the last line of the first runs into the first
\* line of the second
Concat(a, b) == SubSeq(a, 1, Len(a) - 1) \o <<a[Len(a)] + b[1]>> \o Tail(b)

RECURSIVE Joined(_)
Joined(q) == IF Len(q) = 1 THEN q[1].text ELSE Concat(q[1].text, Joined(Tail(q)))

\* C12: the texts handed to the send calls, put end to end in the order of
\* the chunks, are the reply text: with as many lines, each as long as it
\* was, so that no character is lost, added or repeated.
C12_ChunksJoinToTheText ==
  rpc = "sent" =>
    /\ Len(sends) >= 1
    /\ Joined(sends) = rtext
    /\ SeqSum([i \in 1..Len(sends) |-> TextLength(sends[i].text)]) = TextLength(rtext)

\* a text over the limit with a line that had to be cut
C12_Witness ==
  /\ rpc = "sent"
  /\ TextLength(rtext) > 2000
  /\ Len(sends) >= 3
  /\ \E k \in 1..Len(rtext) : rtext[k] > 2000
  /\ Joined(sends) = rtext

\* where the chunks of the sends end in the reply text, as character offsets
CutOffsets ==
  { SeqSum([i \in 1..k |-> TextLength(sends[i].text)]) : k \in 1..(Len(sends) - 1) }

\* the offset of the first character of line k of the reply text
LineStart(k) == SeqSum(SubSeq(rtext, 1, k - 1)) + (k - 1)

\* the lines of the reply text an offset falls strictly inside of
LinesCutAt(p) ==
  { k \in 1..Len(rtext) : LineStart(k) < p /\ p < LineStart(k) + rtext[k] }

\* C13: every text handed to a send call is at most 2000 characters long on
\* Discord and 40000 on Slack, a chunk ends inside a line only when that line
\* is longer than the limit, and there is exactly one send call per chunk.
C13_ChunksWithinLimitAtLineEnds ==
  rpc = "sent" =>
    LET limit == IF rsource = "discord" THEN 2000 ELSE 40000
    IN /\ \A i \in 1..Len(sends) : TextLength(sends[i].text) <= limit
       /\ \A p \in CutOffsets : \A k \in LinesCutAt(p) : rtext[k] > limit
       /\ Len(sends) = Len(chunks)
       /\ \A i \in 1..Len(sends) : sends[i].text = chunks[i] /\ sends[i].state # "none"

\* a Discord text cut once after a newline and once inside a line of 2001
C13_Witness ==
  /\ rpc = "sent" /\ rsource = "discord"
  /\ rtext = <<0, 0, 2001>>
  /\ Len(sends) = 3
  /\ \E p \in CutOffsets : LinesCutAt(p) = {}
  /\ \E p \in CutOffsets : LinesCutAt(p) = {3}

\* C14: the send calls of all chunks of a reply are issued together, before
\* any of them has settled, so none waits for an earlier one; a send that
\* failed leaves the other send calls issued, each settling on its own.
C14_SendsIssuedTogether ==
  rpc = "sent" =>
    /\ \A i \in 1..Len(chunks) : i \in DOMAIN sends /\ sends[i].state # "none"
    /\ \A i \in 1..Len(sends) :
         sends[i].state = "failed" =>
           \A j \in 1..Len(chunks) : sends[j].text = chunks[j] /\ sends[j].state # "none"
    /\ \A i \in 1..Len(sends) :
         (alive /\ sends[i].state = "pending") => ENABLED ChunkSendSettle

\* the first chunk's send has failed, the third chunk has been delivered and
\* the second, issued before it, is still outstanding
C14_Witness ==
  /\ rpc = "sent" /\ alive
  /\ Len(sends) >= 3
  /\ sends[1].state = "failed" /\ sends[2].state = "pending" /\ sends[3].state = "ok"

\* ---- the clean command's calls

\* the positions of the fetch calls in the log
Fetches == { k \in 1..Len(calls) : calls[k].op = "fetch" }

\* the fetch calls made after call k
FetchesAfter(k) == { j \in Fetches : j > k }

FirstFetchAfter(k) == CHOOSE j \in FetchesAfter(k) : \A x \in FetchesAfter(k) : j <= x

\* C15: no call is made while an earlier fetch or bulk delete is outstanding;
\* a fetch asks for at most 50 messages; the fetch that follows a page is for
\* the same channel exactly when that page held a message newer than the
\* cutoff, and otherwise for the next channel of the list; a page with a newer
\* message is always followed by another fetch unless a call failed.
C15_SerializedPageFetches ==
  /\ \A k \in 1..Len(calls) : calls[k].outcome = "pending" => k = Len(calls)
  /\ \A k \in Fetches : calls[k].limit <= 50
  /\ \A k \in Fetches :
       calls[k].outcome = "ok" =>
         IF FetchesAfter(k) # {}
           THEN LET nx == calls[FirstFetchAfter(k)]
                IN /\ (nx.i = calls[k].i <=> calls[k].newer > 0)
                   /\ nx.i \in {calls[k].i, calls[k].i + 1}
           ELSE calls[k].newer > 0 => cpc \in {"bulkDelete", "failed"}
  /\ Fetches # {} => calls[1].op = "fetch" /\ calls[1].i = 1
  /\ cpc = "done" => { calls[k].i : k \in Fetches } = 1..Len(cleanArgs.channels)

\* two channels, the first needing three pages
C15_Witness ==
  /\ cpc = "done"
  /\ Len(cleanArgs.channels) = 2
  /\ Cardinality({ k \in Fetches : calls[k].i = 1 }) = 3
  /\ Cardinality({ k \in Fetches : calls[k].i = 2 }) >= 1

\* C16: a failed fetch or bulk delete is the last call the command makes (it
\* is not made again and the remaining channels get no call), the command
\* returns no text, and what was deleted before stays deleted.
C16_FailureAbandons ==
  /\ \A k \in 1..Len(calls) :
       calls[k].outcome = "failed" =>
         /\ k = Len(calls)
         /\ cpc = "failed"
         /\ result = <<>>
  /\ cpc = "failed" =>
       /\ calls[Len(calls)].outcome = "failed"
       /\ result = <<>>
  /\ \A d \in deleted : d[2] \notin chan[d[1]]

\* a fetch failed after a page was deleted, with a channel still to go
C16_Witness ==
  /\ cpc = "failed"
  /\ calls[Len(calls)].op = "fetch" /\ calls[Len(calls)].outcome = "failed"
  /\ deleted # {}
  /\ ci < Len(cleanArgs.channels)
  /\ chan[cleanArgs.channels[ci + 1]] # {}

\* the fetch calls made for the i-th channel of the list
FetchesOf(i) == { k \in Fetches : calls[k].i = i }

\* C20: when every call returns, an execution ends, with a result or with a
\* failure; and for every channel the one page that is empty or has no newer
\* message is the last page fetched for it.
C20_CleanTerminates ==
  /\ <>(cpc \in {"done", "failed"})
  /\ [](\A k \in Fetches :
          (calls[k].outcome = "ok" /\ calls[k].newer = 0) =>
             \A j \in FetchesOf(calls[k].i) : j <= k)

\* an execution that ended after more than one page of a channel
C20_Witness ==
  /\ cpc = "done"
  /\ Cardinality(FetchesOf(1)) >= 3
  /\ calls[Len(calls)].outcome = "ok"
  /\ Older(cleanArgs.channels[1]) # {}

\* ---- the clean command's arguments

\* the channel a call of the log was made on
CallChannel(k) == cleanArgs.channels[calls[k].i]

\* C18: once a clean invocation that does not name channelIds is scanned,
\* channelIds has its default and no token: the tokens without a name went to
\* time first and to silent second, as far as those were not named; the
\* channel list is the channel of the invoking message alone, and every
\* fetch, bulk delete and deletion is in that channel.
C18_ChannelIdsDefaultsToCurrentChannel ==
  (cpc # "scan" /\ scan # NoScan /\ "channelIds" \notin scan.named) =>
    /\ scan.boundBy["channelIds"] = "default"
    /\ ("time" \notin scan.named) =>
          (scan.boundBy["time"] = "positional" <=> scan.positional >= 1)
    /\ ("silent" \notin scan.named) =>
          (scan.boundBy["silent"] = "positional"
             <=> scan.positional >= (IF "time" \in scan.named THEN 1 ELSE 2))
    /\ cleanArgs.channels = <<"c1">>
    /\ \A k \in 1..Len(calls) : CallChannel(k) = "c1"
    /\ \A d \in deleted : d[1] = "c1"
    /\ chan["c2"] = chan0["c2"]

\* two tokens without a name: time and silent; the invoking channel was
\* cleaned and the other channel, which has newer messages too, was not
C18_Witness ==
  /\ cpc = "done"
  /\ scan.named = {} /\ scan.positional = 2
  /\ scan.boundBy["time"] = "positional" /\ scan.boundBy["silent"] = "positional"
  /\ scan.boundBy["channelIds"] = "default"
  /\ deleted # {}
  /\ \E m \in chan["c2"] : m > cleanArgs.createdTimestamp - cleanArgs.shift

\* ---- delete-image-template without ids

\* C19: a delete-image-template invocation without ids has the empty list as
\* its ids; it is not rejected for a missing or invalid value, and when it is
\* executed no delete call is made, the template rows stay as they were and
\* the reply is the no-ids-found text.
C19_NoIdsGivesNoIdsFound ==
  ( /\ cmd.name = "deleteimagetemplate"
    /\ cmd.stage # "identified"
    /\ "ids" \notin cmd.supplied ) =>
      /\ cmd.ids = {}
      /\ hist.rejected \in {"none", "permission"}
      /\ cmd.stage = "validated" => pc = "permission"
      /\ cmd.stage = "executed" =>
           /\ ~hist.deleteCalled
           /\ templates = hist.templatesBefore
           /\ hist.reply = <<"command_deleteimagetemplate_no_ids_found">>

C19_Witness ==
  /\ cmd.name = "deleteimagetemplate"
  /\ "ids" \notin cmd.supplied
  /\ cmd.stage = "executed"
  /\ templates # {}
  /\ hist.reply = <<"command_deleteimagetemplate_no_ids_found">>

\* C17 (as claimed): on either source the native check passes for a
\* permission only when the actor has that permission in the channel, and a
\* command is authorized only when the actor has every native permission it
\* declares for the source.
C17_NativeCheckNeedsTheGrant ==
  PermissionDecided =>
    /\ \A p \in NativePermissions :
         hasPermissionInChannel(msg.source, cmd.grants, p) => p \in cmd.grants
    /\ cmd.stage \in {"authorized", "executed"} =>
         DeclaredNative(msg.source, cmd.name) \subseteq cmd.grants


\* executeForSlack has returned or thrown
CreateRoleSettled == crpc \in {"done", "failed"}

\* every role name's create call was made and succeeded
AllCreatesSucceeded ==
  /\ Len(slackCalls) >= Len(crArgs.roleNames)
  /\ \A i \in 1..Len(crArgs.roleNames) :
       slackCalls[i].op = "create" /\ slackCalls[i].state = "ok"

\* the list call was made and succeeded
ListSucceeded ==
  \E i \in 1..Len(slackCalls) :
    slackCalls[i].op = "list" /\ slackCalls[i].state = "ok"

\* both tables are as they were on entry (empty)
TablesUntouched == rolesTable = {} /\ permRows = {}

\* C21 as stated: the create-role execution never writes to the roles table or
\* the permissions table, and once every conversation-create call has
\* succeeded it ends by returning the empty string
C21_EmptyStringWhenCreatesSucceed ==
  /\ TablesUntouched
  /\ (CreateRoleSettled /\ AllCreatesSucceeded) => crResult = ""

\* C21: the create-role execution never writes to the roles table or the
\* permissions table, and once every conversation-create call and the
\* conversation list call have succeeded it ends by returning the empty
\* string; it returns nothing else
C21_NoRowWrittenEmptyStringReturned ==
  /\ TablesUntouched
  /\ (CreateRoleSettled /\ AllCreatesSucceeded /\ ListSucceeded) => crResult = ""
  /\ crResult \in {"none", ""}

C21_Witness ==
  /\ crpc = "done"
  /\ crResult = ""
  /\ Len(crArgs.roleNames) >= 2
  /\ crArgs.parentRoleName # Null
  /\ AllCreatesSucceeded /\ ListSucceeded

\* C28: the Slack calls are one conversation-create per role name in the order
\* of roleNames and then the list call, each issued only after the one before
\* it succeeded; so after the k-th create fails nothing further is called, and
\* the conversations created for the first k-1 names are still there
C28_CreatesInOrderStopAtFailure ==
  LET names == crArgs.roleNames
      n == Len(slackCalls)
  IN /\ n <= Len(names) + 1
     /\ \A i \in 1..n :
          /\ (i <= Len(names) =>
                slackCalls[i].op = "create" /\ slackCalls[i].name = names[i])
          /\ (i = Len(names) + 1 => slackCalls[i].op = "list")
          /\ (i < n => slackCalls[i].state = "ok")
     /\ (crpc = "done" => n = Len(names) + 1)
     /\ \A k \in 1..n :
          (slackCalls[k].op = "create" /\ slackCalls[k].state = "failed") =>
             /\ n = k
             /\ conversations = [i \in 1..(k - 1) |-> names[i]]
             /\ crpc = "failed"

C28_Witness ==
  /\ Len(crArgs.roleNames) = 3
  /\ Len(slackCalls) = 2
  /\ slackCalls[2].op = "create" /\ slackCalls[2].state = "failed"
  /\ crpc = "failed"
  /\ conversations = <<crArgs.roleNames[1]>>


\* the rows execution e asked to delete: its ids, in its own organization
RequestedRows(e) == { <<dArgs[e].orgId, i>> : i \in dArgs[e].ids }

\* the ones of them that were there when e read the table
RequestedAndRead(e) == { <<dArgs[e].orgId, i>> : i \in dArgs[e].ids \cap dRead[e] }

DeleteCallsOf(e) == { i \in 1..Len(dCalls) : dCalls[i].exec = e }

\* C26: every row gone from the table was requested by an execution of the
\* row's own organization; a delete call asks for exactly the requested ids
\* that were present when its execution read the rows, removes nothing else,
\* and leaves none of them behind; an execution that found none of its ids
\* issues no delete call and returns the no-ids-found text
C26_DeletesRequestedAndPresentOnly ==
  /\ dTable \subseteq dTable0
  /\ \A r \in dTable0 \ dTable : \E e \in Executions : r \in RequestedRows(e)
  /\ \A i \in 1..Len(dCalls) :
       LET c == dCalls[i]
       IN /\ c.orgId = dArgs[c.exec].orgId
          /\ { <<c.orgId, id>> : id \in c.query } = RequestedAndRead(c.exec)
          /\ c.query # {}
          /\ c.removed \subseteq RequestedAndRead(c.exec)
          /\ c.state = "ok" => RequestedAndRead(c.exec) \cap dTable = {}
  /\ \A e \in Executions :
       /\ Cardinality(DeleteCallsOf(e)) <= 1
       /\ (dpc[e] = "done" /\ RequestedAndRead(e) = {}) =>
             /\ DeleteCallsOf(e) = {}
             /\ dResult[e] = "command_deleteimagetemplate_no_ids_found"
       /\ (dpc[e] = "done" /\ RequestedAndRead(e) # {}) =>
             dResult[e] = "command_deleteimagetemplate_success"

C26_Witness ==
  /\ dpc[1] = "done"
  /\ dResult[1] = "command_deleteimagetemplate_success"
  /\ dArgs[1].ids = {1, 2}
  /\ dRead[1] = {1, 3}
  /\ dArgs[2].orgId = "org2"
  /\ dpc[2] = "done"
  /\ dResult[2] = "command_deleteimagetemplate_success"
  /\ dTable = {<<"org1", 3>>} \cup ({ <<"org2", i>> : i \in DeleteTemplateIds } \ RequestedRows(2))

\* C27: when two executions for the same organization have both returned,
\* whatever the order of their reads and deletes, the table is the initial
\* one minus every requested row; and a delete call that found some of its
\* rows already gone completes like any other, with the success text
C27_ConcurrentDeletesRemoveTheUnion ==
  /\ (dArgs[1].orgId = dArgs[2].orgId /\ \A e \in Executions : dpc[e] = "done") =>
        dTable = dTable0 \ (RequestedRows(1) \cup RequestedRows(2))
  /\ \A i \in 1..Len(dCalls) :
       dCalls[i].state = "ok" =>
          /\ dpc[dCalls[i].exec] = "done"
          /\ dResult[dCalls[i].exec] = "command_deleteimagetemplate_success"

C27_Witness ==
  /\ dArgs[1].orgId = dArgs[2].orgId
  /\ dArgs[1].ids = {1, 2}
  /\ dArgs[2].ids = {2, 3}
  /\ dRead[1] = {1, 2, 3} /\ dRead[2] = {1, 2, 3}
  /\ \A e \in Executions : dpc[e] = "done"
  /\ Len(dCalls) = 2
  /\ dCalls[2].state = "ok"
  /\ dCalls[2].removed # RequestedAndRead(dCalls[2].exec)
  /\ dTable \cap { <<"org1", i>> : i \in DeleteTemplateIds } = {}


\* C29: isSilent is false for a null or undefined silent argument, true for
\* the empty string and for each localized silent keyword, and false for any
\* other value; the finished command's result follows it
C29_isSilentByCase ==
  LET s == cleanArgs.silent
  IN /\ (s \in {"null", "undefined"} => isSilent(s) = FALSE)
     /\ (s = "" => isSilent(s) = TRUE)
     /\ (s \in {"silent", "s"} => isSilent(s) = TRUE)
     /\ (s \notin {"null", "undefined", "", "silent", "s"} => isSilent(s) = FALSE)
     /\ (cpc = "done" => (isSilent(s) <=> result = <<>>))

C29_Witness ==
  /\ cpc = "done"
  /\ cleanArgs.silent = "undefined"
  /\ ~isSilent(cleanArgs.silent)
  /\ result # <<>>
  /\ checkedCount > 0


\* ---- the Discord and Slack listeners

ReconciliationSteps == <<"updateGuilds", "syncTasks", "updateGuild">>

BeforeProcessing == {"idle", "normalize", "updateGuilds", "syncTasks", "updateGuild"}

\* C22: a Discord guild message is handed to command processing (and later
\* to moderation) only after updateGuilds, syncTasks and updateGuild have
\* completed for it in that order; when one of the three fails the handler
\* stops, and the message is neither processed nor moderated
C22_ReconciledBeforeProcessing ==
  (msg.source = "discord" /\ msg.hasGuild) =>
     /\ \E n \in 0..3 : hist.reconciled = SubSeq(ReconciliationSteps, 1, n)
     /\ (hist.processCalled \/ hist.moderated \/ pc \notin BeforeProcessing) =>
           hist.reconciled = ReconciliationSteps
     /\ hist.threwAt \in {"updateGuilds", "syncTasks", "updateGuild"} =>
           /\ ~hist.processCalled
           /\ ~hist.moderated
           /\ pc = "idle"

C22_Witness ==
  /\ msg.source = "discord" /\ msg.hasGuild /\ ~msg.byBot
  /\ hist.reconciled = ReconciliationSteps
  /\ hist.processCalled
  /\ hist.executed
  /\ pc = "reply"

\* C23: a Discord message that has been normalized, reconciled, processed,
\* moderated or handled as a private message, or is on its way through the
\* handler, arrived with discordClientReady set; a message that arrived
\* before is dropped with a warning and nothing else ever happens to it
C23_NothingBeforeReady ==
  msg.source = "discord" =>
     /\ (\/ hist.normalized \/ hist.reconciled # <<>> \/ hist.processCalled
         \/ hist.moderated \/ hist.privateHandled \/ hist.executed
         \/ pc # "idle") =>
           (discordClientReady /\ ~hist.dropped)
     /\ hist.dropped =>
           /\ hist.logged = "w"
           /\ pc = "idle"
           /\ cmd = NoCmd
     /\ (~discordClientReady /\ hist # NoHist) => hist.dropped

C23_Witness ==
  /\ msg.source = "discord"
  /\ msg.hasGuild /\ msg.command # Null /\ ~msg.byBot
  /\ ~discordClientReady
  /\ hist.dropped
  /\ readyPc = "updateGuilds"

AllGuildsUpdated == \A g \in Guilds : guildUpdates[g] = "ok"

ReadyFlagInvariant ==
  /\ discordClientReady => (AllGuildsUpdated /\ readyPc \in {"syncTasks", "done"})
  /\ readyPc = "failed" => ~discordClientReady
  /\ (\E g \in Guilds : guildUpdates[g] = "failed") => readyPc = "failed"

ReadyFlagStep ==
  /\ discordClientReady => discordClientReady'
  /\ readyPc = "failed" => readyPc' = "failed"
  /\ (~discordClientReady /\ discordClientReady') =>
        (AllGuildsUpdated /\ readyPc = "updateGuilds" /\ readyPc' = "syncTasks")
  /\ readyPc' = "syncTasks" => (readyPc = "syncTasks" \/ discordClientReady')

\* C24: the flag is set only by the step in which the ready handler's
\* updateGuilds succeeds, after every per-guild updateGuild has succeeded;
\* when one of these calls fails the handler is over, with the flag false
\* and syncTasks not run; the flag, once true, stays true
C24_ReadyFlagSetOnceAfterUpdates == []ReadyFlagInvariant /\ [][ReadyFlagStep]_vars

\* a message is being processed while the ready handler's syncTasks has not
\* settled
C24_Witness ==
  /\ readyPc = "syncTasks"
  /\ discordClientReady
  /\ msg.source = "discord"
  /\ hist.processCalled
  /\ hist.executed

\* C25: a message authored by the bot is never handed to command processing,
\* to the private-message parser or to moderation, whichever source it came
\* from
C25_BotMessagesNeverProcessed ==
  msg.byBot => (~hist.processCalled /\ ~hist.privateHandled /\ ~hist.moderated)

====
